---- MODULE Spec2Model ----
(***************************************************************************)
(* Model of src/gateway/r2.ts: mountR2Storage and its accessibility probe  *)
(* isR2Accessible, run against a sandbox (mountBucket, startProcess,       *)
(* proc.status, proc.getLogs) whose outcomes are the environment's choice. *)
(*                                                                         *)
(* JavaScript strings are modelled as sequences of characters over a small *)
(* alphabet, so that String.prototype.includes is a real substring search. *)
(* Every await is a separate step: the call is made in one step and its    *)
(* promise settles (resolves or rejects) in a later one.                   *)
(***************************************************************************)
EXTENDS Naturals, Sequences, FiniteSets, TLC

\* Longest text (error message, captured output) the environment produces.
MaxStrLen == 3

\* r2.ts:18  `attempts < 10`
PollLimit == 10

\* The invocations that may overlap under SpecIdem. Spec runs Main alone.
Invocations == {"inv1", "inv2"}
Main == "inv1"

\* ---------------------------------------------------------------- strings

\* JavaScript `undefined`, where a text or a value is expected.
undefined == <<"<undefined>">>

\* The outcome of an expression that throws a TypeError instead of yielding a value.
TypeErrorThrown == <<"<TypeError>">>

RECURSIVE StringsOfLen(_, _)
StringsOfLen(alphabet, n) ==
  IF n = 0 THEN {<<>>}
  ELSE {Append(s, c) : s \in StringsOfLen(alphabet, n - 1), c \in alphabet}

StringsUpTo(alphabet, n) == UNION {StringsOfLen(alphabet, k) : k \in 0..n}

\* String.prototype.includes: t occurs in s as a contiguous substring.
Includes(s, t) ==
  \E i \in 0..Len(s) :
    /\ i + Len(t) <= Len(s)
    /\ SubSeq(s, i + 1, i + Len(t)) = t

\* JavaScript truthiness of a value that is a string or undefined.
Truthy(v) == v # undefined /\ v # <<>>

\* r2.ts:66  the marker 'already in use', two characters of the message alphabet.
ALREADY_IN_USE == <<"i", "u">>
MessageAlphabet == {"i", "u"}
Messages == StringsUpTo(MessageAlphabet, MaxStrLen)

\* r2.ts:15,23  the success token 'accessible', two characters of the output alphabet.
ACCESSIBLE == <<"o", "k">>
OutputAlphabet == {"o", "k"}
Outputs == StringsUpTo(OutputAlphabet, MaxStrLen)

\* ------------------------------------------------------------ environment

\* A credential binding is unset, the empty string, or a value; the three
\* values differ so that a swap of two fields is visible.
KeyIds == {undefined, <<>>, <<"key123">>}
Secrets == {undefined, <<>>, <<"secret">>}
AccountIds == {undefined, <<>>, <<"account123">>}
BucketOverrides == {undefined, <<"moltbot-e2e-test123">>}

Envs ==
  [R2_ACCESS_KEY_ID : KeyIds, R2_SECRET_ACCESS_KEY : Secrets,
   CF_ACCOUNT_ID : AccountIds, R2_BUCKET_NAME : BucketOverrides]

\* config.ts (not among the sources): the fixed mount path and the default bucket.
R2_MOUNT_PATH == <<"/data/moltbot">>
DEFAULT_BUCKET_NAME == <<"moltbot-data">>

\* config.ts getR2BucketName: the R2_BUCKET_NAME override, or the default.
getR2BucketName(e) ==
  IF Truthy(e.R2_BUCKET_NAME) THEN e.R2_BUCKET_NAME ELSE DEFAULT_BUCKET_NAME

\* A faulty variant of CredentialsMissing: the account id is not checked.
CredentialsMissing_NoAccountCheck(e) ==
  \/ ~Truthy(e.R2_ACCESS_KEY_ID)
  \/ ~Truthy(e.R2_SECRET_ACCESS_KEY)

\* r2.ts:41  the condition of the early return.
CredentialsMissing(e) ==
  \/ ~Truthy(e.R2_ACCESS_KEY_ID)
  \/ ~Truthy(e.R2_SECRET_ACCESS_KEY)
  \/ ~Truthy(e.CF_ACCOUNT_ID)

\* r2.ts:47  `https://${env.CF_ACCOUNT_ID}.r2.cloudflarestorage.com`
Endpoint(e) == <<"https://">> \o e.CF_ACCOUNT_ID \o <<".r2.cloudflarestorage.com">>

\* A faulty variant of MountBucketArgs: the two credentials change places.
MountBucketArgs_SwappedKeys(e) ==
  [bucket |-> getR2BucketName(e),
   mountPath |-> R2_MOUNT_PATH,
   endpoint |-> Endpoint(e),
   accessKeyId |-> e.R2_SECRET_ACCESS_KEY,
   secretAccessKey |-> e.R2_ACCESS_KEY_ID]

\* r2.ts:51-57  the arguments of sandbox.mountBucket.
MountBucketArgs(e) ==
  [bucket |-> getR2BucketName(e),
   mountPath |-> R2_MOUNT_PATH,
   endpoint |-> Endpoint(e),
   accessKeyId |-> e.R2_ACCESS_KEY_ID,
   secretAccessKey |-> e.R2_SECRET_ACCESS_KEY]

NoCall ==
  [bucket |-> undefined, mountPath |-> undefined, endpoint |-> undefined,
   accessKeyId |-> undefined, secretAccessKey |-> undefined]

\* ---------------------------------------------------------- thrown values

\* What sandbox.mountBucket may reject with:
\*   "Error"      an Error instance; its message property is a string, or
\*                is not one (shown as undefined);
\*   "primitive"  not an Error, and String(err) yields `message`;
\*   "opaque"     not an Error, and String(err) itself throws a TypeError
\*                (an object without a usable toString, Object.create(null)).
ThrownValues ==
  [tag : {"Error"}, message : Messages \cup {undefined}]
    \cup [tag : {"primitive"}, message : Messages]
    \cup [tag : {"opaque"}, message : {undefined}]

NoError == [tag |-> "none", message |-> undefined]

\* r2.ts:61  err instanceof Error ? err.message : String(err)
ErrorMessage(err) ==
  IF err.tag = "Error" THEN err.message
  ELSE IF err.tag = "primitive" THEN err.message
  ELSE TypeErrorThrown

\* A faulty variant of MarkerTest: the test is negated.
MarkerTest_Negated(msg) ==
  IF msg = undefined THEN "TypeError"
  ELSE IF Includes(msg, ALREADY_IN_USE) THEN "other"
  ELSE "conflict"

\* A faulty variant of MarkerTest: the message is compared with the marker instead of
\* searched for it.
MarkerTest_Equality(msg) ==
  IF msg = undefined THEN "TypeError"
  ELSE IF msg = ALREADY_IN_USE THEN "conflict"
  ELSE "other"

\* r2.ts:66  errorMessage.includes('already in use'); on a value that is not
\* a string the property access throws a TypeError.
MarkerTest(msg) ==
  IF msg = undefined THEN "TypeError"
  ELSE IF Includes(msg, ALREADY_IN_USE) THEN "conflict"
  ELSE "other"

\* r2.ts:60-66  how the catch block classifies the rejection.
Classify(err) ==
  IF ErrorMessage(err) = TypeErrorThrown THEN "TypeError"
  ELSE MarkerTest(ErrorMessage(err))

\* ------------------------------------------------------------------ probe

Statuses == {"running", "completed", "failed"}
ExitCodes == {0, 1}

NoProc == [status |-> "none", exitCode |-> 0]
NoLogs == [stdout |-> undefined, stderr |-> undefined]

\* What proc.getLogs() may resolve with.
LogResults == [stdout : Outputs \cup {undefined}, stderr : {<<>>, ACCESSIBLE}]

\* A faulty variant of PollContinues: the attempt ceiling is left out.
PollContinues_NoLimit(status, n) == status = "running"

\* r2.ts:18  the loop condition.
PollContinues(status, n) == status = "running" /\ n < PollLimit

\* A faulty variant of Accessible: the token is looked for in both streams.
Accessible_AnyStream(l) ==
  \/ Truthy(l.stdout) /\ Includes(l.stdout, ACCESSIBLE)
  \/ Truthy(l.stderr) /\ Includes(l.stderr, ACCESSIBLE)

\* r2.ts:23  !!(logs.stdout && logs.stdout.includes('accessible'))
Accessible(l) == Truthy(l.stdout) /\ Includes(l.stdout, ACCESSIBLE)

\* ------------------------------------------------------------------ state

VARIABLES
  env,          \* the Worker's environment bindings
  mounted,      \* the stateful sandbox: is the mount path in use
  pc,           \* where each invocation stands
  result,       \* the value the invocation returned: "none", "true", "false"
  mountArgs,    \* the arguments of the invocation's mountBucket call
  mountCalls,   \* sandbox.mountBucket calls of the invocation
  startCalls,   \* sandbox.startProcess calls of the invocation
  getLogsCalls, \* proc.getLogs calls of the invocation
  mountOutcome, \* "none", "ok" or "rejected"
  mountErr,     \* the value mountBucket rejected with
  proc,         \* the process startProcess returned: status and exit code
  attempts,     \* r2.ts:17
  probe,        \* the probe's return value: "none", "true", "false"
  probeErr,     \* "none", "startProcess" or "getLogs": the call that threw
  logs,         \* what getLogs resolved with
  console       \* the console lines of the invocation, as <<level, text>>

vars ==
  <<env, mounted, pc, result, mountArgs, mountCalls, startCalls, getLogsCalls,
    mountOutcome, mountErr, proc, attempts, probe, probeErr, logs, console>>

Init ==
  /\ env \in Envs
  /\ mounted = FALSE
  /\ pc = [p \in Invocations |-> "idle"]
  /\ result = [p \in Invocations |-> "none"]
  /\ mountArgs = [p \in Invocations |-> NoCall]
  /\ mountCalls = [p \in Invocations |-> 0]
  /\ startCalls = [p \in Invocations |-> 0]
  /\ getLogsCalls = [p \in Invocations |-> 0]
  /\ mountOutcome = [p \in Invocations |-> "none"]
  /\ mountErr = [p \in Invocations |-> NoError]
  /\ proc = [p \in Invocations |-> NoProc]
  /\ attempts = [p \in Invocations |-> 0]
  /\ probe = [p \in Invocations |-> "none"]
  /\ probeErr = [p \in Invocations |-> "none"]
  /\ logs = [p \in Invocations |-> NoLogs]
  /\ console = [p \in Invocations |-> <<>>]

Bool(b) == IF b THEN "true" ELSE "false"

\* ---------------------------------------------------------------- actions

\* r2.ts:39-57  entry of mountR2Storage, up to the await of sandbox.mountBucket.
\* A finished invocation may be followed by a new one; nothing of the old
\* invocation is kept.
Invoke(p) ==
  /\ pc[p] \in {"idle", "returned", "rejected"}
  /\ mountOutcome' = [mountOutcome EXCEPT ![p] = "none"]
  /\ mountErr' = [mountErr EXCEPT ![p] = NoError]
  /\ startCalls' = [startCalls EXCEPT ![p] = 0]
  /\ getLogsCalls' = [getLogsCalls EXCEPT ![p] = 0]
  /\ proc' = [proc EXCEPT ![p] = NoProc]
  /\ attempts' = [attempts EXCEPT ![p] = 0]
  /\ probe' = [probe EXCEPT ![p] = "none"]
  /\ probeErr' = [probeErr EXCEPT ![p] = "none"]
  /\ logs' = [logs EXCEPT ![p] = NoLogs]
  /\ IF CredentialsMissing(env)
       THEN /\ console' = [console EXCEPT ![p] = <<<<"log", "not configured">>>>]
            /\ result' = [result EXCEPT ![p] = "false"]
            /\ pc' = [pc EXCEPT ![p] = "returned"]
            /\ mountArgs' = [mountArgs EXCEPT ![p] = NoCall]
            /\ mountCalls' = [mountCalls EXCEPT ![p] = 0]
       ELSE /\ console' = [console EXCEPT ![p] = <<<<"log", "mounting">>>>]
            /\ result' = [result EXCEPT ![p] = "none"]
            /\ pc' = [pc EXCEPT ![p] = "awaitMount"]
            /\ mountArgs' = [mountArgs EXCEPT ![p] = MountBucketArgs(env)]
            /\ mountCalls' = [mountCalls EXCEPT ![p] = 1]
  /\ UNCHANGED <<env, mounted>>

\* r2.ts:51,58-59  the mountBucket promise resolves.
MountResolved(p) ==
  /\ mountOutcome' = [mountOutcome EXCEPT ![p] = "ok"]
  /\ console' = [console EXCEPT ![p] = Append(@, <<"log", "mounted successfully">>)]
  /\ result' = [result EXCEPT ![p] = "true"]
  /\ pc' = [pc EXCEPT ![p] = "returned"]
  /\ UNCHANGED <<env, mountArgs, mountCalls, startCalls, getLogsCalls, mountErr,
                 proc, attempts, probe, probeErr, logs>>

\* r2.ts:83-91  the lines of a genuine mount failure.
FailureLines(err) ==
  <<<<"error", "R2 mount error">>>>
    \o (IF err.tag = "Error" THEN <<<<"error", "R2 mount stack">>>> ELSE <<>>)
    \o <<<<"error", "R2 mount details">>, <<"error", "Failed to mount R2 bucket">>>>

\* r2.ts:60-91, 12-16  the mountBucket promise rejects with err: the catch
\* block, up to the await of sandbox.startProcess in isR2Accessible.
MountRejected(p, err) ==
  /\ mountOutcome' = [mountOutcome EXCEPT ![p] = "rejected"]
  /\ mountErr' = [mountErr EXCEPT ![p] = err]
  /\ CASE Classify(err) = "TypeError" ->
            \* r2.ts:61 or :66 throws inside the catch block: nothing catches it
            /\ pc' = [pc EXCEPT ![p] = "rejected"]
            /\ UNCHANGED <<result, console, startCalls>>
       [] Classify(err) = "conflict" ->
            /\ console' = [console EXCEPT ![p] = Append(@, <<"log", "already mounted">>)]
            /\ startCalls' = [startCalls EXCEPT ![p] = @ + 1]
            /\ pc' = [pc EXCEPT ![p] = "awaitStart"]
            /\ UNCHANGED result
       [] OTHER ->
            /\ console' = [console EXCEPT ![p] = @ \o FailureLines(err)]
            /\ result' = [result EXCEPT ![p] = "false"]
            /\ pc' = [pc EXCEPT ![p] = "returned"]
            /\ UNCHANGED startCalls
  /\ UNCHANGED <<env, mountArgs, mountCalls, getLogsCalls,
                 proc, attempts, probe, probeErr, logs>>

\* The sandbox settles the mountBucket call either way, with any error.
MountBucketSettles(p) ==
  /\ pc[p] = "awaitMount"
  /\ \/ MountResolved(p)
     \/ \E err \in ThrownValues : MountRejected(p, err)
  /\ UNCHANGED mounted

\* A faulty variant of ProbeReturns: mountR2Storage returns what the probe returned.
ProbeReturns_ReturnsProbe(p, acc, line) ==
  /\ probe' = [probe EXCEPT ![p] = Bool(acc)]
  /\ attempts' = [attempts EXCEPT ![p] = 0]
  /\ console' = [console EXCEPT ![p] =
       @ \o <<line,
              IF acc THEN <<"log", "R2 mount verified">>
                     ELSE <<"warn", "filesystem check failed">>>>]
  /\ result' = [result EXCEPT ![p] = Bool(acc)]
  /\ pc' = [pc EXCEPT ![p] = "returned"]

\* r2.ts:25,28,70-79  isR2Accessible returns acc, which ends its local
\* `attempts`; mountR2Storage logs the outcome and returns true.
ProbeReturns(p, acc, line) ==
  /\ probe' = [probe EXCEPT ![p] = Bool(acc)]
  /\ attempts' = [attempts EXCEPT ![p] = 0]
  /\ console' = [console EXCEPT ![p] =
       @ \o <<line,
              IF acc THEN <<"log", "R2 mount verified">>
                     ELSE <<"warn", "filesystem check failed">>>>]
  /\ result' = [result EXCEPT ![p] = "true"]
  /\ pc' = [pc EXCEPT ![p] = "returned"]

\* r2.ts:14-18  startProcess resolves with a process in some status, or
\* r2.ts:26-28  rejects.
StartProcessSettles(p) ==
  /\ pc[p] = "awaitStart"
  /\ \/ /\ \E st \in Statuses :
             proc' = [proc EXCEPT ![p] = [status |-> st, exitCode |-> 0]]
        /\ attempts' = [attempts EXCEPT ![p] = 0]
        /\ pc' = [pc EXCEPT ![p] = "poll"]
        /\ UNCHANGED <<probe, probeErr, console, result>>
     \/ /\ probeErr' = [probeErr EXCEPT ![p] = "startProcess"]
        /\ ProbeReturns(p, FALSE, <<"log", "isR2Accessible error">>)
        /\ UNCHANGED proc
  /\ UNCHANGED <<env, mounted, mountArgs, mountCalls, startCalls, getLogsCalls,
                 mountOutcome, mountErr, logs>>

\* r2.ts:18-21  one pass of the loop: the 200ms wait, during which the remote
\* process may leave 'running'.
PollWait(p) ==
  /\ pc[p] = "poll"
  /\ PollContinues(proc[p].status, attempts[p])
  /\ attempts' = [attempts EXCEPT ![p] = @ + 1]
  /\ \E st \in Statuses : proc' = [proc EXCEPT ![p].status = st]
  /\ UNCHANGED <<env, mounted, pc, result, mountArgs, mountCalls, startCalls,
                 getLogsCalls, mountOutcome, mountErr, probe, probeErr, logs,
                 console>>

\* r2.ts:18,22  the loop condition is false: proc.getLogs() is called.
PollExit(p) ==
  /\ pc[p] = "poll"
  /\ ~PollContinues(proc[p].status, attempts[p])
  /\ getLogsCalls' = [getLogsCalls EXCEPT ![p] = @ + 1]
  /\ pc' = [pc EXCEPT ![p] = "awaitLogs"]
  /\ UNCHANGED <<env, mounted, result, mountArgs, mountCalls, startCalls,
                 mountOutcome, mountErr, proc, attempts, probe, probeErr, logs,
                 console>>

\* r2.ts:22-25  getLogs resolves with the captured output, or r2.ts:26-28
\* rejects. The exit code is whatever the process has by then.
GetLogsSettles(p) ==
  /\ pc[p] = "awaitLogs"
  /\ \E code \in ExitCodes : proc' = [proc EXCEPT ![p].exitCode = code]
  /\ \/ \E l \in LogResults :
          /\ logs' = [logs EXCEPT ![p] = l]
          /\ ProbeReturns(p, Accessible(l), <<"log", "isR2Accessible check">>)
          /\ UNCHANGED probeErr
     \/ /\ probeErr' = [probeErr EXCEPT ![p] = "getLogs"]
        /\ ProbeReturns(p, FALSE, <<"log", "isR2Accessible error">>)
        /\ UNCHANGED logs
  /\ UNCHANGED <<env, mounted, mountArgs, mountCalls, startCalls, getLogsCalls,
                 mountOutcome, mountErr>>

\* The steps of the probe, the same under every sandbox.
ProbeStep(p) ==
  \/ StartProcessSettles(p)
  \/ PollWait(p)
  \/ PollExit(p)
  \/ GetLogsSettles(p)

Next ==
  \/ Invoke(Main)
  \/ MountBucketSettles(Main)
  \/ ProbeStep(Main)

Spec == Init /\ [][Next]_vars

\* The event loop runs every continuation whose promise has settled, and the
\* sandbox calls of this model always settle.
FairSpec == Spec /\ WF_vars(MountBucketSettles(Main) \/ ProbeStep(Main))

\* ------------------------------------------------- the stateful sandbox

\* test-utils.ts:69-71  the error of a sandbox whose mount path is taken: an
\* Error whose message holds the marker inside other text.
MOUNT_CONFLICT == [tag |-> "Error", message |-> <<"u">> \o ALREADY_IN_USE]

\* test-utils.ts:68-72  mountBucket resolves on a free mount path, which it
\* leaves in use, and rejects with the conflict error on one in use.
MountBucketStateful(p) ==
  /\ pc[p] = "awaitMount"
  /\ IF mounted
       THEN MountRejected(p, MOUNT_CONFLICT) /\ UNCHANGED mounted
       ELSE MountResolved(p) /\ mounted' = TRUE

NextIdem ==
  \E p \in Invocations :
    \/ Invoke(p)
    \/ MountBucketStateful(p)
    \/ ProbeStep(p)

SpecIdem == Init /\ [][NextIdem]_vars

\* ----------------------------------------------------------------- claims

Finished(p) == pc[p] \in {"returned", "rejected"}

Absent(v) == v = undefined \/ v = <<>>

AnyCredentialAbsent ==
  \/ Absent(env.R2_ACCESS_KEY_ID)
  \/ Absent(env.R2_SECRET_ACCESS_KEY)
  \/ Absent(env.CF_ACCOUNT_ID)

\* The rejection of p's mountBucket call carries a text with the marker.
ConflictRejection(p) ==
  /\ mountOutcome[p] = "rejected"
  /\ mountErr[p].message # undefined
  /\ \E i \in 1..Len(mountErr[p].message) - 1 :
       /\ mountErr[p].message[i] = "i"
       /\ mountErr[p].message[i + 1] = "u"

HasLevel(p, level) == \E i \in 1..Len(console[p]) : console[p][i][1] = level

\* C1: with any of the three credentials absent or empty, an invocation
\* returns false at once and calls neither mountBucket nor startProcess.
C1_NotConfigured ==
  \A p \in Invocations :
    (pc[p] # "idle" /\ AnyCredentialAbsent) =>
      /\ pc[p] = "returned"
      /\ result[p] = "false"
      /\ mountCalls[p] = 0
      /\ startCalls[p] = 0
      /\ mountOutcome[p] = "none"

C1_Witness ==
  /\ pc[Main] = "returned"
  /\ env.R2_ACCESS_KEY_ID = <<"key123">>
  /\ env.R2_SECRET_ACCESS_KEY = <<>>
  /\ env.CF_ACCOUNT_ID = <<"account123">>
  /\ result[Main] = "false"

\* C2: when mountBucket resolves the invocation returns true, and the call
\* received the resolved bucket name (the override verbatim, else the
\* default), the fixed path, the endpoint built from the account id, and the
\* two credentials unchanged.
C2_MountSucceeds ==
  \A p \in Invocations :
    mountOutcome[p] = "ok" =>
      /\ pc[p] = "returned"
      /\ result[p] = "true"
      /\ mountArgs[p].bucket =
           (IF env.R2_BUCKET_NAME = undefined THEN <<"moltbot-data">>
            ELSE env.R2_BUCKET_NAME)
      /\ mountArgs[p].mountPath = <<"/data/moltbot">>
      /\ mountArgs[p].endpoint =
           <<"https://">> \o env.CF_ACCOUNT_ID \o <<".r2.cloudflarestorage.com">>
      /\ ~AnyCredentialAbsent
      /\ mountArgs[p].accessKeyId = env.R2_ACCESS_KEY_ID
      /\ mountArgs[p].secretAccessKey = env.R2_SECRET_ACCESS_KEY

C2_Witness ==
  /\ mountOutcome[Main] = "ok"
  /\ result[Main] = "true"
  /\ env.R2_BUCKET_NAME = <<"moltbot-e2e-test123">>
  /\ mountArgs[Main].bucket = <<"moltbot-e2e-test123">>

\* C3: after a rejection whose message contains 'already in use' the
\* invocation returns true whatever the probe does: token found, token
\* missing, process still running after the last wait, startProcess or
\* getLogs throwing. It never returns false and never throws.
C3_ConflictIsSuccess ==
  \A p \in Invocations :
    ConflictRejection(p) =>
      /\ pc[p] \in {"awaitStart", "poll", "awaitLogs", "returned"}
      /\ result[p] # "false"
      /\ pc[p] = "returned" => result[p] = "true"

C3_Witness ==
  /\ ConflictRejection(Main)
  /\ pc[Main] = "returned"
  /\ result[Main] = "true"
  /\ probe[Main] = "false"
  /\ proc[Main].status = "running"
  /\ logs[Main].stdout = <<"k">>

\* C4: after a rejection with anything whose message does not contain
\* 'already in use' the invocation returns false and startProcess is never
\* called.
C4_OtherErrorIsFailure ==
  \A p \in Invocations :
    (mountOutcome[p] = "rejected" /\ ~ConflictRejection(p)) =>
      /\ pc[p] = "returned"
      /\ result[p] = "false"
      /\ startCalls[p] = 0

\* C5: no invocation ends by throwing to its caller.
C5_NeverThrows == \A p \in Invocations : pc[p] # "rejected"

\* The state part of the poll bound: never more than 10 waits, the logs read
\* once, and read only after the status left 'running' or the 10th wait.
C6_LoopInvariant ==
  \A p \in Invocations :
    /\ attempts[p] <= 10
    /\ getLogsCalls[p] <= 1
    /\ pc[p] = "awaitLogs" =>
         /\ getLogsCalls[p] = 1
         /\ proc[p].status # "running" \/ attempts[p] = 10
    /\ (pc[p] = "returned" /\ probeErr[p] # "startProcess" /\ startCalls[p] = 1) =>
         getLogsCalls[p] = 1

\* The step part: a wait happens only on status 'running' below the ceiling and
\* counts one attempt; on any other status the next step reads the logs.
C6_LoopStep ==
  \A p \in Invocations :
    /\ (pc[p] = "poll" /\ pc'[p] = "poll") =>
         /\ proc[p].status = "running"
         /\ attempts[p] < 10
         /\ attempts'[p] = attempts[p] + 1
    /\ (pc[p] = "poll" /\ proc[p].status # "running") =>
         /\ pc'[p] = "awaitLogs"
         /\ attempts'[p] = attempts[p]
         /\ getLogsCalls'[p] = 1

\* C6: the poll loop waits only while the status is 'running', leaves at the
\* first other status (no wait at all if the process is not running at the
\* first look), waits at most 10 times, then reads the logs exactly once; a
\* probe whose process runs forever still returns.
C6_BoundedPoll ==
  /\ []C6_LoopInvariant
  /\ [][C6_LoopStep]_vars
  /\ (pc[Main] \in {"awaitStart", "poll", "awaitLogs"}) ~> (pc[Main] = "returned")

C6_Witness ==
  /\ pc[Main] = "awaitLogs"
  /\ proc[Main].status = "running"
  /\ attempts[Main] = 10
  /\ getLogsCalls[Main] = 1

\* C7: the probe returns true exactly when startProcess and getLogs both
\* completed and the captured stdout is non-empty and contains 'accessible';
\* otherwise it returns false. It always returns, and the final status and
\* exit code play no part.
C7_ProbeResult ==
  \A p \in Invocations :
    /\ (Finished(p) /\ startCalls[p] = 1) => (pc[p] = "returned" /\ probe[p] # "none")
    /\ probe[p] # "none" =>
         (probe[p] = "true" <=>
            /\ probeErr[p] = "none"
            /\ getLogsCalls[p] = 1
            /\ logs[p].stdout # undefined
            /\ logs[p].stdout # <<>>
            /\ \E i \in 1..Len(logs[p].stdout) - 1 :
                 logs[p].stdout[i] = "o" /\ logs[p].stdout[i + 1] = "k")

C7_Witness ==
  /\ probe[Main] = "false"
  /\ probeErr[Main] = "none"
  /\ logs[Main].stdout = <<"k", "o">>
  /\ logs[Main].stderr = ACCESSIBLE
  /\ proc[Main].status = "completed"
  /\ proc[Main].exitCode = 0

\* The state part of the single attempt: the call counts of an invocation.
C8_Counts ==
  \A p \in Invocations :
    /\ mountCalls[p] <= 1
    /\ startCalls[p] <= 1
    /\ (pc[p] # "idle" /\ ~AnyCredentialAbsent) => mountCalls[p] = 1
    /\ startCalls[p] = 1 => ConflictRejection(p)
    /\ mountOutcome[p] = "ok" => startCalls[p] = 0

\* The step part: startProcess is called in the step that handles the
\* rejection of the one mountBucket call, and no running invocation calls
\* mountBucket again.
C8_StartStep ==
  \A p \in Invocations :
    /\ startCalls'[p] > startCalls[p] =>
         /\ pc[p] = "awaitMount"
         /\ mountCalls[p] = 1
         /\ mountOutcome[p] = "none"
         /\ mountOutcome'[p] = "rejected"
    /\ mountCalls'[p] > mountCalls[p] => pc[p] \in {"idle", "returned", "rejected"}
    /\ pc[p] \notin {"idle", "returned", "rejected"} =>
         (mountCalls'[p] = mountCalls[p] /\ startCalls'[p] >= startCalls[p])

\* C8: one mount attempt per invocation and no retry: mountBucket is called
\* at most once (exactly once with complete credentials), startProcess at
\* most once, and only after the invocation's mountBucket call was rejected
\* with 'already in use', never before the call and never after a successful
\* mount.
C8_SingleAttempt == []C8_Counts /\ [][C8_StartStep]_vars

C8_Witness ==
  /\ pc[Main] = "returned"
  /\ mountCalls[Main] = 1
  /\ startCalls[Main] = 1
  /\ mountErr[Main] = [tag |-> "primitive", message |-> <<"i", "i", "u">>]

\* C9: the levels of an invocation's console lines match its decision: a
\* warning exactly when the mount was rejected with 'already in use' and the
\* probe returned false; an error-level line exactly when the mount was
\* rejected with any other error; otherwise informational lines only, and
\* never an error-level line when true is returned.
C9_LogLevels ==
  \A p \in Invocations :
    Finished(p) =>
      /\ HasLevel(p, "warn") <=> (ConflictRejection(p) /\ probe[p] = "false")
      /\ HasLevel(p, "error") <=> (mountOutcome[p] = "rejected" /\ ~ConflictRejection(p))
      /\ result[p] = "true" => ~HasLevel(p, "error")
      /\ HasLevel(p, "log")

\* C10: against the sandbox that mounts a free path and rejects a taken one
\* with 'already in use', every invocation with complete credentials returns
\* true, however invocations repeat and overlap and whatever the probe says.
C10_Idempotent ==
  \A p \in Invocations :
    (pc[p] # "idle" /\ ~AnyCredentialAbsent) =>
      /\ pc[p] # "rejected"
      /\ result[p] # "false"
      /\ pc[p] = "returned" => result[p] = "true"

C10_Witness ==
  /\ pc["inv1"] = "returned" /\ pc["inv2"] = "returned"
  /\ mountOutcome["inv1"] = "ok" /\ result["inv1"] = "true"
  /\ mountOutcome["inv2"] = "rejected" /\ result["inv2"] = "true"
  /\ probe["inv2"] = "false"

====
